---- MODULE Spec2Model ----
(***************************************************************************)
(* Model of the media-accordion front end: the MediaAccordion class        *)
(* (src/src/media-accordion/media-accordion.js), the shared                *)
(* AccordionVisibilityManager (src/src/active-accordion/                   *)
(* visibility-manager.js) and the debounced resize handler                 *)
(* (src/src/media-accordion/utils.js).                                     *)
(*                                                                         *)
(* Time is in milliseconds on a 500 ms grid.  A timer created by           *)
(* setTimeout is a record [id, due]; it may fire once the clock has        *)
(* reached its due time, and the clock does not pass a due timer, but any  *)
(* other event may be handled at the same instant before the timer's       *)
(* callback runs (the browser's event-loop order between sources is free).  *)
(***************************************************************************)
EXTENDS Integers, Sequences, FiniteSets, TLC

VARIABLES
    \* ---- MediaAccordion fields -------------------------------------
    nItems,              \* this.items.length
    contentContainer,    \* this.contentContainer # null
    durations,           \* per item: the --animation-duration value in ms
    autoplayEnabled,     \* this.autoplayEnabled
    currentIndex,        \* this.currentIndex (0-based)
    timeoutId,           \* this.timeoutId (0 models null)
    isPaused,            \* this.isPaused
    remainingTime,       \* this.remainingTime
    startTime,           \* this.startTime
    duration,            \* this.duration
    slider,              \* this.slider # null
    widgets,             \* KeenSlider objects created and not destroyed
    markers,             \* the content container carries 'keen-slider' and the items
                         \*   carry 'keen-slider__slide'
    videoPlaying,        \* the video in the media container is playing (autoplay
                         \*   attribute at insertion, then play() / pause())
    buttonShowsPlay,     \* the pause button shows the play icon, labelled 'Resume'
    faceOn,              \* the three variables above are recorded (in SpecFace only;
                         \*   the controller writes them and never reads them)
                         \*   (otherwise the pause icon, labelled 'Pause')
    isVisible,           \* this.isVisible
    wasUserPaused,       \* this.wasUserPaused
    hasStartedAnimation, \* this.hasStartedAnimation
    \* ---- DOM ------------------------------------------------------
    activeItems,         \* indices of the items carrying the active class
    pausedItems,         \* indices of the items carrying the paused class
    listening,           \* the click / resize listeners are attached
    \* ---- AccordionVisibilityManager ---------------------------------
    observer,            \* AccordionVisibilityManager.observer # null
    accordions,          \* AccordionVisibilityManager.accordions: the Map, as the
                         \*   sequence of its entries [target, accordion]
    \* ---- browser ----------------------------------------------------
    now,                 \* Date.now()
    timers,              \* live auto-advance timers: set of [id, due]
    debounce,            \* due time of the pending debounced resize call, -1 if none
    landscape,           \* Utils.isLandscapeOrSquare()
    \* ---- history (observation only, never read by the operations) ----
    phase,               \* what the last event did: "none" | "pausedUser" | "pausedHidden"
                         \*   | "resumed" (the resume matching that pause) | "advanced"
                         \*   (a timer fired) | "destroyed" | "registered" (register ran
                         \*   with the observer in place) | "created" (register ran and
                         \*   init() created the observer)
    activeMs,            \* ms the current item has spent running since it was activated
    cycles,              \* pauses of the current item since it was activated (capped at 2);
                         \*   both are kept for a live instance and end with destroy()
    everResumed,         \* the user has resumed an instance built with autoplay disabled
    startup,             \* "fresh": nothing but resizes and hidden callbacks so far;
                         \*   "started": since then one visible callback, then only the
                         \*   clock, the timers and resize events; "used": anything else
    log,                 \* times of the pause-button clicks (recorded in the scenario only)
    burst,               \* times: the times of the resize events the debounced handler
                         \*   has not run for yet; handled: the number of events the
                         \*   handler has just run for, 0 once a new event has arrived
                         \*   (recorded in the resize study only)
    \* ---- the other components of the page ------------------------------
    peer,                \* a second MediaAccordion instance of the same page
    nav,                 \* the navigation plugin of a KeenSlider
    variant,             \* the MediaAccordion of the active-accordion view script
    observed             \* the last entry the observer callback has handled (recorded
                         \*   in the observer study only)

ctrlVars  == <<nItems, contentContainer, durations, autoplayEnabled, currentIndex,
               timeoutId, isPaused, remainingTime, startTime, duration, slider, widgets,
               isVisible, wasUserPaused, hasStartedAnimation>>
playVars  == <<currentIndex, timeoutId, isPaused, remainingTime, startTime, duration,
               isVisible, wasUserPaused, hasStartedAnimation>>
domVars   == <<activeItems, pausedItems, listening>>
regVars   == <<observer, accordions>>
envVars   == <<now, timers, debounce, landscape>>
histVars  == <<phase, activeMs, cycles, everResumed, startup, log, burst>>
sideVars  == <<peer, nav, variant>>
faceVars  == <<markers, videoPlaying, buttonShowsPlay, faceOn>>
vars      == <<ctrlVars, faceVars, domVars, regVars, envVars, histVars, sideVars, observed>>

\* the state of the program proper, without the clock and the history
progVars  == <<ctrlVars, domVars, regVars, timers, debounce>>

-----------------------------------------------------------------------------
\* Bounds of the model
MaxItems == 2
MaxTime == 1000
MaxTimers == 3
MaxScenarioTime == 14000
MaxScenarioClicks == 2
MaxBurst == 2
MaxSlides == 5
MaxNavElements == 6

\* CONFIG.DEFAULTS.RESIZE_DEBOUNCE
RESIZE_DEBOUNCE == 500

\* the durations an item may declare in the general specification
DurationValues == {500, 1000}

\* the durations of the example scenario of the specification
ScenarioDurations == <<3000, 5000, 2000>>

\* Math.max
Max(a, b) == IF a > b THEN a ELSE b

-----------------------------------------------------------------------------
\* ---- AccordionVisibilityManager -----------------------------------------------

\* the container element of the instance (accordion.accordion) and the instance
Container == "container"
Self == "accordion"

\* accordions.has( k )
MapHas(m, k) == \E i \in 1..Len(m) : m[i].target = k

\* variant: set() appends an entry even when the key is present
MapSetAppends(m, k, v) == Append(m, [target |-> k, accordion |-> v])

\* accordions.set( k, v ): the value of an existing key is replaced in place,
\* a new key is appended
MapSet(m, k, v) ==
    IF MapHas(m, k)
    THEN [i \in 1..Len(m) |-> IF m[i].target = k THEN [target |-> k, accordion |-> v]
                                                  ELSE m[i]]
    ELSE Append(m, [target |-> k, accordion |-> v])

\* variant: delete() empties the map
MapDeleteClears(m, k) == <<>>

\* accordions.delete( k )
MapDelete(m, k) == SelectSeq(m, LAMBDA e : e.target # k)

\* the entries of the map whose key is k
EntriesFor(m, k) == SelectSeq(m, LAMBDA e : e.target = k)

\* accordions.has( this.accordion )
registered == MapHas(accordions, Container)

\* init(): a new IntersectionObserver is created only when there is none
InitCreatesObserver == ~observer

\* register( accordion )
Register ==
    /\ observer' = TRUE
    /\ accordions' = MapSet(accordions, Container, Self)

\* variant: unregister() leaves the entry in the map
UnregisterKeepsEntry == UNCHANGED <<accordions, observer>>

\* unregister( accordion )
Unregister ==
    /\ accordions' = IF observer /\ MapHas(accordions, Container)
                     THEN MapDelete(accordions, Container)
                     ELSE accordions
    /\ UNCHANGED observer

-----------------------------------------------------------------------------
\* ---- timers ---------------------------------------------------------------

TimerIds(tms) == {t.id : t \in tms}

\* the handle setTimeout returns: an id no live timer has
FreeId(tms) == CHOOSE i \in 1..(Cardinality(tms) + 1) : i \notin TimerIds(tms)

\* setTimeout( cb, delay ) : the timer created at the current time
SetTimeout(tms, delay) == [id |-> FreeId(tms), due |-> now + delay]

\* clearTimer() / clearTimeout( this.timeoutId ) : the timers left alive
ClearTimer(tms, tid) == IF tid # 0 THEN {t \in tms : t.id # tid} ELSE tms

\* no operation is asked for more live timers than the model allows
CanArm == Cardinality(timers) < MaxTimers

\* variant: the duration is read from the first item whatever the index
GetAnimationDurationOfFirst(idx) == durations[1]

\* getAnimationDuration() for the item at index idx: save writes the declared
\* duration as "<n>ms", which the reader parses back to n
GetAnimationDuration(idx) == durations[idx + 1]

\* variant: the next index without the wrap-around
NextIndexNoWrap(idx) == idx + 1

\* the index the timer callback passes to showItem
NextIndex(idx) == (idx + 1) % nItems

-----------------------------------------------------------------------------
\* ---- MediaAccordion methods, as the effect on the fields they write --------

\* variant: the pause state is not consulted
ScheduleNextItemWhilePaused(tms, tid, idx, paused, visible) ==
    IF ~visible
    THEN /\ timers' = tms
         /\ timeoutId' = tid
         /\ UNCHANGED <<duration, startTime, remainingTime>>
    ELSE LET d == GetAnimationDuration(idx)
             t == SetTimeout(tms, d)
         IN  /\ duration' = d
             /\ startTime' = now
             /\ remainingTime' = d
             /\ timers' = tms \cup {t}
             /\ timeoutId' = t.id

\* scheduleNextItem(), run with live timers tms and handle tid
ScheduleNextItem(tms, tid, idx, paused, visible) ==
    IF paused \/ ~visible
    THEN /\ timers' = tms
         /\ timeoutId' = tid
         /\ UNCHANGED <<duration, startTime, remainingTime>>
    ELSE LET d == GetAnimationDuration(idx)
             t == SetTimeout(tms, d)
         IN  /\ duration' = d
             /\ startTime' = now
             /\ remainingTime' = d
             /\ timers' = tms \cup {t}
             /\ timeoutId' = t.id

\* variant: the active class is not removed from the other items
UpdateActiveItemKeepsOthers(index) ==
    /\ activeItems' = activeItems \cup {index}
    /\ pausedItems' = IF isPaused THEN {index} ELSE {}
    /\ currentIndex' = index

\* updateActiveItem( index, updateSlider )
UpdateActiveItem(index) ==
    /\ activeItems' = {index}
    /\ pausedItems' = IF isPaused THEN {index} ELSE {}
    /\ currentIndex' = index

\* updateMediaContent(): video.autoplay of the video it inserts
VideoAutoplay == ~isPaused \/ ~autoplayEnabled

\* a write to the visible face of the block: recorded when faceOn
Face(new, old) == IF faceOn THEN new ELSE old

\* variant: showItem does not call clearTimer
ShowItemKeepsTimer(tms, index) ==
    IF index < 0 \/ index >= nItems
    THEN /\ timers' = tms
         /\ UNCHANGED <<timeoutId, duration, startTime, remainingTime,
                        activeItems, pausedItems, currentIndex>>
         /\ UNCHANGED <<activeMs, cycles, videoPlaying>>
    ELSE /\ UpdateActiveItem(index)
         /\ videoPlaying' = Face(VideoAutoplay, videoPlaying)
         /\ ScheduleNextItem(tms, timeoutId, index, isPaused, isVisible)
         /\ activeMs' = 0
         /\ cycles' = 0

\* showItem( index, updateSlider ), run with live timers tms
ShowItem(tms, index) ==
    IF index < 0 \/ index >= nItems
    THEN /\ timers' = tms
         /\ UNCHANGED <<timeoutId, duration, startTime, remainingTime,
                        activeItems, pausedItems, currentIndex>>
         /\ UNCHANGED <<activeMs, cycles, videoPlaying>>
    ELSE /\ UpdateActiveItem(index)
         /\ videoPlaying' = Face(VideoAutoplay, videoPlaying)
         /\ ScheduleNextItem(ClearTimer(tms, timeoutId), 0, index, isPaused, isVisible)
         /\ activeMs' = 0
         /\ cycles' = 0

\* the timer armed by the continuation branch of resume() / resumeAnimation():
\* setTimeout( ..., this.remainingTime )
ContinueTimer(tms) == SetTimeout(tms, remainingTime)

\* the continuation branch itself: the handle is overwritten, nothing is cleared
ContinueAnimation ==
    LET t == ContinueTimer(timers)
    IN  /\ startTime' = now
        /\ timers' = timers \cup {t}
        /\ timeoutId' = t.id
        /\ UNCHANGED <<duration, remainingTime>>

\* variant: the elapsed time is measured from time 0 instead of startTime
RemainingAtPauseFromZero == Max(0, duration - now)

\* Math.max( 0, this.duration - elapsed ) with elapsed = Date.now() - this.startTime
RemainingAtPause == Max(0, duration - (now - startTime))

\* the paused class after classList.add / classList.remove on items[ currentIndex ]
AddPausedClass == IF currentIndex < nItems THEN pausedItems \cup {currentIndex} ELSE pausedItems

\* variant: resuming leaves the paused class on the item
RemovePausedClassKeeps == pausedItems

RemovePausedClass == pausedItems \ {currentIndex}

\* variant: pauseAnimation() takes its snapshot even when already paused
PauseAnimationUnguarded ==
    /\ isPaused' = TRUE
    /\ timers' = ClearTimer(timers, timeoutId)
    /\ timeoutId' = 0
    /\ remainingTime' = RemainingAtPause
    /\ videoPlaying' = Face(FALSE, videoPlaying)
    /\ pausedItems' = AddPausedClass
    /\ UNCHANGED <<duration, startTime, hasStartedAnimation>>

\* pauseAnimation()
PauseAnimation ==
    IF ~isPaused
    THEN /\ isPaused' = TRUE
         /\ timers' = ClearTimer(timers, timeoutId)
         /\ timeoutId' = 0
         /\ remainingTime' = RemainingAtPause
         /\ videoPlaying' = Face(FALSE, videoPlaying)
         /\ pausedItems' = AddPausedClass
         /\ UNCHANGED <<duration, startTime, hasStartedAnimation>>
    ELSE UNCHANGED <<isPaused, timers, timeoutId, remainingTime, pausedItems,
                     duration, startTime, hasStartedAnimation, videoPlaying>>

\* variant: the first start continues from remainingTime instead of scheduling
\* the full duration
ResumeAnimationNoFirstStart ==
    IF isPaused /\ ~wasUserPaused
    THEN /\ isPaused' = FALSE
         /\ ContinueAnimation
         /\ hasStartedAnimation' = TRUE
         /\ videoPlaying' = Face(TRUE, videoPlaying)
         /\ pausedItems' = RemovePausedClass
    ELSE UNCHANGED <<isPaused, timers, timeoutId, remainingTime, pausedItems,
                     duration, startTime, hasStartedAnimation, videoPlaying>>

\* resumeAnimation(), called with this.isVisible already true
ResumeAnimation ==
    IF isPaused /\ ~wasUserPaused
    THEN /\ isPaused' = FALSE
         /\ IF ~hasStartedAnimation
            THEN /\ hasStartedAnimation' = TRUE
                 /\ ScheduleNextItem(timers, timeoutId, currentIndex, FALSE, TRUE)
            ELSE /\ ContinueAnimation
                 /\ UNCHANGED hasStartedAnimation
         /\ videoPlaying' = Face(TRUE, videoPlaying)
         /\ pausedItems' = RemovePausedClass
    ELSE IF ~isPaused /\ ~wasUserPaused /\ remainingTime = 0
    THEN /\ ScheduleNextItem(timers, timeoutId, currentIndex, FALSE, TRUE)
         /\ UNCHANGED <<isPaused, hasStartedAnimation, pausedItems, videoPlaying>>
    ELSE UNCHANGED <<isPaused, timers, timeoutId, remainingTime, pausedItems,
                     duration, startTime, hasStartedAnimation, videoPlaying>>

\* pause(), reached from togglePause() when not paused
Pause ==
    /\ wasUserPaused' = TRUE
    /\ isPaused' = TRUE
    /\ timers' = ClearTimer(timers, timeoutId)
    /\ timeoutId' = 0
    /\ remainingTime' = IF hasStartedAnimation THEN RemainingAtPause ELSE remainingTime
    /\ pausedItems' = pausedItems \cup {currentIndex}
    /\ buttonShowsPlay' = Face(TRUE, buttonShowsPlay)
    /\ videoPlaying' = Face(FALSE, videoPlaying)
    /\ UNCHANGED <<duration, startTime, hasStartedAnimation>>

\* variant: resume() continues with remainingTime even when nothing has started
ResumeContinuesRemaining ==
    /\ wasUserPaused' = FALSE
    /\ isPaused' = FALSE
    /\ IF isVisible
       THEN /\ ContinueAnimation
            /\ hasStartedAnimation' = TRUE
       ELSE UNCHANGED <<timers, timeoutId, duration, startTime, remainingTime,
                        hasStartedAnimation>>
    /\ pausedItems' = RemovePausedClass
    /\ buttonShowsPlay' = Face(FALSE, buttonShowsPlay)
    /\ videoPlaying' = Face(TRUE, videoPlaying)

\* resume(), reached from togglePause() when paused
Resume ==
    /\ wasUserPaused' = FALSE
    /\ isPaused' = FALSE
    /\ IF isVisible
       THEN IF ~hasStartedAnimation
            THEN /\ hasStartedAnimation' = TRUE
                 /\ ScheduleNextItem(timers, timeoutId, currentIndex, FALSE, isVisible)
            ELSE /\ ContinueAnimation
                 /\ UNCHANGED hasStartedAnimation
       ELSE UNCHANGED <<timers, timeoutId, duration, startTime, remainingTime,
                        hasStartedAnimation>>
    /\ pausedItems' = RemovePausedClass
    /\ buttonShowsPlay' = Face(FALSE, buttonShowsPlay)
    /\ videoPlaying' = Face(TRUE, videoPlaying)

\* initSlider() returns at once without a content container or with a slider
InitSliderReturns == ~contentContainer \/ slider

\* initSlider(): whether a KeenSlider exists afterwards, shown being the value
\* of Utils.isElementVisible( this.accordion ) at the call
SliderAfterInit(shown) == IF InitSliderReturns THEN slider ELSE shown

\* initSlider(): the KeenSlider objects alive afterwards
WidgetsAfterInit(shown) ==
    IF ~InitSliderReturns /\ shown THEN widgets + 1 ELSE widgets

\* variant: destroySlider() drops the reference without slider.destroy()
WidgetsAfterDestroyLeaks == widgets

\* destroySlider(), and the same lines of destroy(): the KeenSlider objects alive
\* afterwards
WidgetsAfterDestroy == IF slider THEN widgets - 1 ELSE widgets

\* initSlider(): the marker classes are added together with the KeenSlider
MarkersAfterInit(shown) == IF ~InitSliderReturns /\ shown THEN TRUE ELSE markers

\* destroySlider(): the marker classes are removed when there is a slider
MarkersAfterDestroySlider == IF slider THEN FALSE ELSE markers

\* destroy(): slider.destroy() and this.slider = null, the classes are not touched
MarkersAfterDestroy == markers

\* initSlider(): it registers again instead when the element is not visible
InitSliderRegisters(shown) == ~InitSliderReturns /\ ~shown

-----------------------------------------------------------------------------
\* ---- the state after construction ----------------------------------------

\* the page has no second instance, no navigation plugin, no variant controller
NoPeer == [live |-> FALSE]
NoNav == [live |-> FALSE, slides |-> 0]
NoVariant == [live |-> FALSE, timers |-> {}]

\* the observer callback has handled no entry yet
NoEntry == [target |-> "none"]

\* item i (1-based) declares duration a when i is odd and b when it is even
DurationsOf(n, a, b) == [i \in 1..n |-> IF i % 2 = 1 THEN a ELSE b]

\* variant: init() has no early return for a container without items
InitWiresAlways(n) == TRUE

\* init(): nothing is wired when the container has no items
InitWires(n) == n > 0

\* constructor + init() on a container with n items; container tells whether
\* the content element is found, face whether the visible face is recorded
ConstructedWith(n, durs, autoplay, wide, shown, container, face) ==
    /\ nItems = n
    /\ contentContainer = container
    /\ durations = durs
    /\ autoplayEnabled = autoplay
    /\ currentIndex = 0
    /\ timeoutId = 0
    /\ isPaused = TRUE
    /\ wasUserPaused = ~autoplay
    /\ remainingTime = 0
    /\ startTime = 0
    /\ duration = 0
    /\ isVisible = FALSE
    /\ hasStartedAnimation = FALSE
    /\ listening = InitWires(n)
    /\ activeItems = IF n > 0 THEN {0} ELSE {}
    /\ pausedItems = IF n > 0 THEN {0} ELSE {}
    /\ observer = InitWires(n)
    /\ accordions = IF InitWires(n) THEN <<[target |-> Container, accordion |-> Self]>>
                                    ELSE <<>>
    /\ slider = (InitWires(n) /\ ~wide /\ shown /\ container)
    /\ widgets = IF InitWires(n) /\ ~wide /\ shown /\ container THEN 1 ELSE 0
    /\ faceOn = face
    /\ markers = (face /\ InitWires(n) /\ ~wide /\ shown /\ container)
    /\ videoPlaying = (face /\ InitWires(n) /\ ~autoplay)
    /\ buttonShowsPlay = (face /\ InitWires(n))
    /\ now = 0
    /\ timers = {}
    /\ debounce = -1
    /\ landscape = wide
    /\ phase = "none"
    /\ activeMs = 0
    /\ cycles = 0
    /\ everResumed = FALSE
    /\ startup = "fresh"
    /\ log = <<>>
    /\ burst = [times |-> <<>>, handled |-> 0]
    /\ peer = NoPeer
    /\ nav = NoNav
    /\ variant = NoVariant
    /\ observed = NoEntry

\* the same on the markup the block saves, which has the content element
ConstructedOn(n, durs, autoplay, wide, shown, container) ==
    ConstructedWith(n, durs, autoplay, wide, shown, container, FALSE)

Constructed(n, durs, autoplay, wide, shown) ==
    ConstructedOn(n, durs, autoplay, wide, shown, TRUE)

Init ==
    \E n \in 0..MaxItems, a \in DurationValues, b \in DurationValues,
       autoplay \in BOOLEAN, wide \in BOOLEAN, shown \in BOOLEAN :
        Constructed(n, DurationsOf(n, a, b), autoplay, wide, shown)

InitScenario ==
    Constructed(Len(ScenarioDurations), ScenarioDurations, TRUE, TRUE, TRUE)

-----------------------------------------------------------------------------
\* ---- events -----------------------------------------------------------------

\* the pause counter of the history, capped at 2
Bump(c) == IF c < 2 THEN c + 1 ELSE 2

\* variant: handleItemClick does not consult the viewport
HeaderClickAnyViewport(i) ==
    /\ listening /\ CanArm
    /\ IF i # currentIndex
       THEN ShowItem(timers, i)
       ELSE UNCHANGED <<timers, timeoutId, duration, startTime, remainingTime,
                        activeItems, pausedItems, currentIndex, activeMs, cycles,
                        videoPlaying>>
    /\ phase' = IF isPaused /\ currentIndex' # currentIndex THEN "navigatedPaused" ELSE "none"
    /\ startup' = "used"
    /\ UNCHANGED <<nItems, faceOn, contentContainer, durations, autoplayEnabled, isPaused,
                   slider, widgets, markers, buttonShowsPlay, isVisible, wasUserPaused, hasStartedAnimation, listening, regVars,
                   now, debounce, landscape, everResumed, log, burst, sideVars, observed>>

\* handleClick -> handleItemClick( itemButton ) for the header of item i
HeaderClick(i) ==
    /\ listening /\ CanArm
    /\ IF landscape /\ i # currentIndex
       THEN ShowItem(timers, i)
       ELSE UNCHANGED <<timers, timeoutId, duration, startTime, remainingTime,
                        activeItems, pausedItems, currentIndex, activeMs, cycles,
                        videoPlaying>>
    /\ phase' = IF isPaused /\ currentIndex' # currentIndex THEN "navigatedPaused" ELSE "none"
    /\ startup' = "used"
    /\ UNCHANGED <<nItems, faceOn, contentContainer, durations, autoplayEnabled, isPaused,
                   slider, widgets, markers, buttonShowsPlay, isVisible, wasUserPaused, hasStartedAnimation, listening, regVars,
                   now, debounce, landscape, everResumed, log, burst, sideVars, observed>>

\* the slideChanged callback of the KeenSlider: showItem( abs, false )
SlideChanged(i) ==
    /\ slider /\ CanArm
    /\ ShowItem(timers, i)
    /\ phase' = IF isPaused /\ currentIndex' # currentIndex THEN "navigatedPaused" ELSE "none"
    /\ startup' = "used"
    /\ UNCHANGED <<nItems, faceOn, contentContainer, durations, autoplayEnabled, isPaused,
                   slider, widgets, markers, buttonShowsPlay, isVisible, wasUserPaused, hasStartedAnimation, listening, regVars,
                   now, debounce, landscape, everResumed, log, burst, sideVars, observed>>

\* the setTimeout callback of timer t: showItem( ( currentIndex + 1 ) % items.length )
TimerFire(t) ==
    /\ t \in timers
    /\ t.due <= now
    /\ ShowItem(timers \ {t}, NextIndex(currentIndex))
    /\ phase' = "advanced"
    /\ UNCHANGED <<nItems, faceOn, contentContainer, durations, autoplayEnabled, isPaused,
                   slider, widgets, markers, buttonShowsPlay, isVisible, wasUserPaused, hasStartedAnimation, listening, regVars,
                   now, debounce, landscape, everResumed, startup, log, burst, sideVars, observed>>

\* handleClick -> togglePause(), everything but the click log
TogglePause ==
    /\ listening /\ CanArm
    /\ IF isPaused THEN Resume ELSE Pause
    /\ phase' = IF ~isPaused
                THEN (IF timers # {} THEN "pausedUser" ELSE "none")
                ELSE (IF phase = "pausedUser" /\ isVisible THEN "resumed" ELSE "none")
    /\ cycles' = IF ~isPaused /\ timers # {} THEN Bump(cycles) ELSE cycles
    /\ everResumed' = (everResumed \/ ~autoplayEnabled)
    /\ startup' = "used"
    /\ UNCHANGED <<nItems, faceOn, contentContainer, durations, autoplayEnabled, currentIndex,
                   slider, widgets, markers, isVisible, activeItems, listening, regVars,
                   now, debounce, landscape, activeMs, burst, sideVars, observed>>

PauseClick == TogglePause /\ UNCHANGED log

\* onVisibilityChange( isVisible ); the observer passes true only for an element
\* that passes Utils.isElementVisible
OnVisibilityChange(visible) ==
    /\ isVisible' = visible
    /\ IF visible
       THEN /\ slider' = IF ~landscape /\ ~slider THEN SliderAfterInit(visible) ELSE slider
            /\ widgets' = IF ~landscape /\ ~slider THEN WidgetsAfterInit(visible) ELSE widgets
            /\ markers' = Face(IF ~landscape /\ ~slider THEN MarkersAfterInit(visible) ELSE markers, markers)
            /\ IF ~wasUserPaused
               THEN ResumeAnimation
               ELSE UNCHANGED <<isPaused, timers, timeoutId, remainingTime, pausedItems,
                                duration, startTime, hasStartedAnimation, videoPlaying>>
       ELSE /\ PauseAnimation
            /\ UNCHANGED <<slider, widgets, markers>>

\* the observer callback's handling of an entry of this container: the instance
\* is looked up in the map and gets onVisibilityChange( visible ) with
\* visible = entry.isIntersecting && Utils.isElementVisible( entry.target )
DeliverEntry(isIntersecting, shown) ==
    /\ nItems > 0 /\ CanArm
    /\ IF ~MapHas(accordions, Container)
       THEN UNCHANGED <<isVisible, slider, widgets, markers, videoPlaying, isPaused, timers, timeoutId, remainingTime,
                        pausedItems, duration, startTime, hasStartedAnimation,
                        phase, cycles, startup>>
       ELSE
       LET visible == isIntersecting /\ shown
       IN  /\ OnVisibilityChange(visible)
           /\ phase' = IF visible
                       THEN (IF phase = "pausedHidden" /\ isPaused /\ ~wasUserPaused
                             THEN "resumed" ELSE "none")
                       ELSE (IF isPaused THEN "hiddenPaused"
                             ELSE IF timers # {} THEN "pausedHidden" ELSE "none")
           /\ cycles' = IF ~visible /\ ~isPaused /\ timers # {} /\ listening
                        THEN Bump(cycles) ELSE cycles
           /\ startup' = IF ~visible /\ startup = "fresh" THEN "fresh"
                         ELSE IF visible /\ startup = "fresh" THEN "started"
                         ELSE "used"
    /\ UNCHANGED <<nItems, faceOn, contentContainer, durations, autoplayEnabled, currentIndex,
                   wasUserPaused, buttonShowsPlay,
                   activeItems, listening, regVars,
                   now, debounce, landscape, activeMs, everResumed, log, burst, sideVars>>

\* the IntersectionObserver callback for an entry of this container
VisibilityCallback(isIntersecting, shown) ==
    DeliverEntry(isIntersecting, shown) /\ UNCHANGED observed

\* variant: the debounced function leaves a pending call where it is
ResizeEventKeepsDelay(wide) ==
    /\ now + RESIZE_DEBOUNCE <= MaxTime
    /\ landscape' = wide
    /\ debounce' = IF listening /\ debounce < 0 THEN now + RESIZE_DEBOUNCE ELSE debounce
    /\ UNCHANGED <<ctrlVars, faceVars, domVars, regVars, now, timers,
                   phase, activeMs, cycles, everResumed, startup, log, sideVars, observed>>

\* a resize / orientationchange event: the viewport may change its aspect ratio,
\* and the one debounced function both listeners share (Utils.debounce) clears
\* its pending call and starts the delay again; only the events whose delay ends
\* within the model's horizon are taken
ResizeEvent(wide) ==
    /\ now + RESIZE_DEBOUNCE <= MaxTime
    /\ landscape' = wide
    /\ debounce' = IF listening THEN now + RESIZE_DEBOUNCE ELSE debounce
    /\ UNCHANGED <<ctrlVars, faceVars, domVars, regVars, now, timers,
                   phase, activeMs, cycles, everResumed, startup, log, sideVars, observed>>

Resize(wide) == ResizeEvent(wide) /\ UNCHANGED burst

\* handleOrientationChange() reaches the register() call of initSlider
ReRegisters(shown) == ~landscape /\ ~slider /\ isVisible /\ InitSliderRegisters(shown)

\* variant: a wide viewport leaves the carousel attached
HandleOrientationChangeKeepsWide(shown) ==
    IF landscape
    THEN UNCHANGED <<slider, widgets, markers, regVars>>
    ELSE IF ~slider /\ isVisible
    THEN /\ slider' = SliderAfterInit(shown)
         /\ widgets' = WidgetsAfterInit(shown)
         /\ markers' = Face(MarkersAfterInit(shown), markers)
         /\ IF InitSliderRegisters(shown) THEN Register ELSE UNCHANGED regVars
    ELSE UNCHANGED <<slider, widgets, markers, regVars>>

\* handleOrientationChange(), run by the debounce timer; shown is the value of
\* Utils.isElementVisible( this.accordion ) at that moment
HandleOrientationChange(shown) ==
    IF landscape
    THEN /\ slider' = FALSE
         /\ widgets' = WidgetsAfterDestroy
         /\ markers' = Face(MarkersAfterDestroySlider, markers)
         /\ UNCHANGED regVars
    ELSE IF ~slider /\ isVisible
    THEN /\ slider' = SliderAfterInit(shown)
         /\ widgets' = WidgetsAfterInit(shown)
         /\ markers' = Face(MarkersAfterInit(shown), markers)
         /\ IF InitSliderRegisters(shown) THEN Register ELSE UNCHANGED regVars
    ELSE UNCHANGED <<slider, widgets, markers, regVars>>

DebounceFire(shown) ==
    /\ debounce >= 0
    /\ debounce <= now
    /\ debounce' = -1
    /\ burst' = [times |-> <<>>, handled |-> Len(burst.times)]
    /\ HandleOrientationChange(shown)
    /\ phase' = IF ReRegisters(shown)
                THEN IF InitCreatesObserver THEN "created" ELSE "registered"
                ELSE "none"
    /\ startup' = IF startup = "fresh" THEN "fresh" ELSE "used"
    /\ UNCHANGED <<nItems, faceOn, contentContainer, durations, autoplayEnabled, currentIndex,
                   timeoutId, isPaused, remainingTime, startTime, duration, isVisible, wasUserPaused,
                   hasStartedAnimation, videoPlaying, buttonShowsPlay, domVars, now, timers,
                   landscape, activeMs, cycles, everResumed, log, sideVars, observed>>

\* destroy()
Destroy ==
    /\ timers' = ClearTimer(timers, timeoutId)
    /\ timeoutId' = 0
    /\ listening' = FALSE
    /\ Unregister
    /\ slider' = FALSE
    /\ widgets' = WidgetsAfterDestroy
    /\ markers' = Face(MarkersAfterDestroy, markers)
    /\ phase' = "destroyed"
    /\ startup' = "used"
    /\ activeMs' = 0
    /\ cycles' = 0
    /\ UNCHANGED <<nItems, faceOn, contentContainer, durations, autoplayEnabled, currentIndex,
                   isPaused, remainingTime, startTime, duration, isVisible, wasUserPaused,
                   hasStartedAnimation, videoPlaying, buttonShowsPlay, activeItems,
                   pausedItems, now, debounce, landscape, everResumed, log, burst, sideVars, observed>>

\* variant: destroy() drops the observer but keeps the map
RegistryDestroyKeepsMap ==
    /\ observer' = FALSE
    /\ accordions' = accordions
    /\ phase' = "none"
    /\ startup' = "used"
    /\ UNCHANGED <<ctrlVars, faceVars, domVars, envVars, activeMs, cycles, everResumed, log, burst, sideVars, observed>>

\* AccordionVisibilityManager.destroy(), the beforeunload handler
RegistryDestroy ==
    /\ IF observer
       THEN /\ observer' = FALSE
            /\ accordions' = <<>>
       ELSE UNCHANGED <<observer, accordions>>
    /\ phase' = "none"
    /\ startup' = "used"
    /\ UNCHANGED <<ctrlVars, faceVars, domVars, envVars, activeMs, cycles, everResumed, log, burst, sideVars, observed>>

\* the controller is counting down the current item
Running == ~isPaused /\ timers # {}

\* 500 ms pass; no timer is passed over while it is due
TickTo(horizon) ==
    /\ now + 500 <= horizon
    /\ \A t \in timers : t.due > now
    /\ debounce < 0 \/ debounce > now
    /\ now' = now + 500
    /\ activeMs' = IF Running /\ listening THEN activeMs + 500 ELSE activeMs
    /\ phase' = IF phase = "resumed" THEN "none" ELSE phase
    /\ UNCHANGED <<ctrlVars, faceVars, domVars, regVars, timers, debounce, landscape,
                   cycles, everResumed, startup, log, burst, sideVars, observed>>

Tick == TickTo(MaxTime)

Next ==
    \/ \E i \in 0..(nItems - 1) : HeaderClick(i)
    \/ \E i \in (-1)..nItems : SlideChanged(i)
    \/ \E t \in timers : TimerFire(t)
    \/ PauseClick
    \/ \E b \in BOOLEAN : \E shown \in (IF b THEN BOOLEAN ELSE {FALSE}) :
          VisibilityCallback(b, shown)
    \/ \E w \in BOOLEAN : Resize(w)
    \/ \E shown \in BOOLEAN : DebounceFire(shown)
    \/ Destroy
    \/ RegistryDestroy
    \/ Tick

Spec == Init /\ [][Next]_vars

-----------------------------------------------------------------------------
\* ---- the example scenario: durations [3000, 5000, 2000], visible at t = 0 ----

\* the instance becomes visible at t = 0
ScenarioShow ==
    /\ startup = "fresh"
    /\ now = 0
    /\ VisibilityCallback(TRUE, TRUE)

\* the clock starts once the instance has been shown or clicked
ScenarioTick ==
    /\ startup # "fresh"
    /\ TickTo(MaxScenarioTime)

\* a click on the pause button, recorded with its time
ScenarioPauseClick ==
    /\ Len(log) < MaxScenarioClicks
    /\ TogglePause
    /\ log' = Append(log, now)

NextScenario ==
    \/ ScenarioShow
    \/ ScenarioTick
    \/ \E t \in timers : TimerFire(t)
    \/ ScenarioPauseClick

SpecScenario == InitScenario /\ [][NextScenario]_vars

-----------------------------------------------------------------------------
\* ---- properties -------------------------------------------------------------

\* C1: after any sequence of header clicks, pause-button clicks, visibility
\* callbacks, slide-changed notifications, resize callbacks and timer firings,
\* at most one auto-advance timer is live.
C1_AtMostOneLiveTimer == Cardinality(timers) <= 1

\* C2: no auto-advance timer is live while isVisible is false (so no
\* timer-driven advance happens while the instance is not visible).
C2_NoLiveTimerWhileHidden == ~isVisible => timers = {}

\* C5: once the user has paused, the controller stays paused with no live timer
\* until the user resumes (wasUserPaused is set by pause() and cleared only by
\* resume()).
C5_UserPauseHolds == wasUserPaused => (isPaused /\ timers = {})

\* C3: for an instance with at least one item, exactly one item carries the
\* active class, it is items[currentIndex], and 0 <= currentIndex < items.length.
C3_SingleActiveItem ==
    nItems > 0 => /\ activeItems = {currentIndex}
                  /\ currentIndex >= 0
                  /\ currentIndex < nItems

\* C3 witness: navigation has moved the active item to the last of several items
C3_Witness ==
    /\ nItems > 1
    /\ currentIndex = nItems - 1
    /\ activeItems = {nItems - 1}
    /\ startup = "used"

\* the time the current item still has to run, by its declared duration
DeclaredRemaining == GetAnimationDuration(currentIndex) - activeMs

\* C4: an item of duration D paused (by the user or by hiding) after running for
\* E, 0 <= E <= D, and then resumed by the matching resume with the instance
\* visible and nothing in between, advances exactly D - E after the resume:
\* right after the resume the one live timer is due at now + D - E.
C4_RemainingTimeConserved ==
    (phase = "resumed" /\ cycles = 1 /\ DeclaredRemaining >= 0)
        => \E t \in timers : timers = {t} /\ t.due = now + DeclaredRemaining

\* C6: a timer-driven advance from index i activates (i + 1) mod items.length:
\* the last index advances to 0, a single item advances to itself.
C6_TimerAdvanceWraps ==
    [][(\E t \in timers : TimerFire(t))
         => /\ currentIndex' = IF currentIndex = nItems - 1 THEN 0 ELSE currentIndex + 1
            /\ activeItems' = {currentIndex'}]_vars

\* C6 witness: a timer has just advanced the last of several items to item 0
C6_Witness ==
    /\ phase = "advanced"
    /\ nItems > 1
    /\ currentIndex = 0
    /\ activeItems = {0}

\* C7: destroy() leaves no live timer and no registry entry, and a second
\* destroy() right after the first changes nothing.
C7_DestroyIdempotent ==
    [][Destroy => /\ timers' = {}
                  /\ ~registered'
                  /\ (phase = "destroyed" => UNCHANGED progVars)]_vars

\* C8: with autoplay enabled and no user interaction, no timer exists before the
\* first onVisibilityChange(true), and handling that callback arms exactly one
\* timer, for item 0's full duration.
C8_FirstVisibleStarts ==
    /\ []((autoplayEnabled /\ startup = "fresh") => timers = {})
    /\ [][(autoplayEnabled /\ nItems > 0 /\ startup = "fresh" /\ startup' = "started")
            => /\ timers' = {[id |-> 1, due |-> now + durations[1]]}
               /\ currentIndex' = 0]_vars

\* C8 witness: the first visible callback has armed the timer of item 0
C8_Witness ==
    /\ autoplayEnabled
    /\ startup = "started"
    /\ phase = "none"
    /\ currentIndex = 0
    /\ startTime = now
    /\ Cardinality(timers) = 1

\* a live timer has reached its due time and its callback has not run yet
TimerDue == \E t \in timers : t.due <= now

\* the item the scenario's schedule names for time t: item 0 during [0, 3000),
\* item 1 during [3000, 8000), item 2 during [8000, 10000), then again from item 0
ScenarioIndexAt(t) ==
    LET r == t % 10000
    IN  IF r < 3000 THEN 0 ELSE IF r < 8000 THEN 1 ELSE 2

\* C9: with durations [3000, 5000, 2000], autoplay, visible at t = 0 and no other
\* event, item 0 is active during [0, 3000), item 1 during [3000, 8000), item 2
\* during [8000, 10000), and item 0 again from t = 10000 (at a boundary instant
\* the previous item is active only until the due timer's callback has run).
C9_ScenarioSchedule ==
    startup = "started"
        => /\ currentIndex = ScenarioIndexAt(IF TimerDue THEN now - 500 ELSE now)
           /\ activeItems = {currentIndex}

\* C9 witness: the schedule has wrapped to item 0 at t = 10000
C9_Witness ==
    /\ startup = "started"
    /\ now = 10000
    /\ currentIndex = 0
    /\ ~TimerDue

\* C10: in that scenario a user pause at t = 4500 records 3500 ms, and a user
\* resume at t = 10000 makes the advance to item 2 happen at t = 13500, not before.
C10_ScenarioPauseResume ==
    /\ log = <<4500>>
         => (isPaused /\ remainingTime = 3500 /\ currentIndex = 1 /\ timers = {})
    /\ log = <<4500, 10000>>
         => /\ currentIndex = IF now < 13500 \/ (now = 13500 /\ TimerDue) THEN 1 ELSE 2
            /\ now < 13500 => timers = {[id |-> 1, due |-> 13500]}

\* C10 witness: after the pause at 4500 and the resume at 10000, item 2 has
\* become active at t = 13500
C10_Witness ==
    /\ log = <<4500, 10000>>
    /\ now = 13500
    /\ currentIndex = 2
    /\ phase = "advanced"

-----------------------------------------------------------------------------
\* C11: an instance built with autoplay disabled is user-paused, and as long as
\* the user has not resumed it no timer is live and none was ever armed (duration
\* and remainingTime are still 0), whatever visibility changes, header clicks,
\* slide changes and resizes have been handled.
C11_NoTimerBeforeFirstResume ==
    (~autoplayEnabled /\ ~everResumed) =>
        /\ isPaused /\ wasUserPaused
        /\ timers = {} /\ timeoutId = 0
        /\ duration = 0 /\ remainingTime = 0
        /\ ~hasStartedAnimation

\* autoplay disabled, not resumed yet: the instance is visible, the user has
\* navigated to the second item and a resize was handled, still without a timer
C11_Witness ==
    /\ ~autoplayEnabled /\ ~everResumed
    /\ isVisible /\ currentIndex = 1 /\ slider
    /\ now > 0 /\ debounce = -1
    /\ timers = {}

-----------------------------------------------------------------------------
\* the only live timer is the one for the full duration of the current item,
\* armed at this instant
FullTimerArmed(tms, idx) ==
    /\ GetAnimationDuration(idx) > 0
    /\ \E t \in tms : tms = {t} /\ t.due = now + GetAnimationDuration(idx)

\* C12: for an instance built with autoplay disabled that has never started,
\* the first user resume arms the timer for the full duration of the current
\* item at once when the instance is visible; when it is hidden, the timer is
\* armed for the full duration by the next change to visible; and the first
\* timer ever armed is never the zero-length one of the initial remainingTime.
C12_FirstResumeArmsFullDuration ==
    [][/\ (~autoplayEnabled /\ ~everResumed /\ everResumed' /\ isVisible)
            => FullTimerArmed(timers', currentIndex)
       /\ (~autoplayEnabled /\ everResumed /\ duration = 0 /\ ~wasUserPaused
              /\ ~isVisible /\ isVisible')
            => FullTimerArmed(timers', currentIndex)
       /\ (~autoplayEnabled /\ duration = 0 /\ timers' # {})
            => FullTimerArmed(timers', currentIndex')]_vars

\* the first resume came while hidden and the change to visible has just armed
\* the first timer, through the branch that leaves hasStartedAnimation unset
C12_Witness ==
    /\ ~autoplayEnabled /\ everResumed
    /\ isVisible /\ ~isPaused /\ ~hasStartedAnimation
    /\ startTime = now /\ now > 0
    /\ FullTimerArmed(timers, currentIndex)

-----------------------------------------------------------------------------
\* C13: a header click or a slideChanged notification whose index equals
\* currentIndex or lies outside 0..nItems-1 changes nothing: the active item, the
\* pause state, the remaining time and the pending timer stay as they were.
C13_SameOrInvalidIndexIsNoOp ==
    [][(\E i \in -1..nItems :
            /\ i = currentIndex \/ i < 0 \/ i >= nItems
            /\ HeaderClick(i) \/ SlideChanged(i))
        => UNCHANGED <<currentIndex, activeItems, pausedItems, isPaused, wasUserPaused,
                       remainingTime, timers, timeoutId>>]_vars

-----------------------------------------------------------------------------
\* C14: an instance that has not been destroyed, is visible (the last
\* onVisibilityChange delivered true) and is not user-paused is running: it is
\* not paused and a timer is live.
C14_VisibleUnpausedRuns ==
    (nItems > 0 /\ listening /\ isVisible /\ ~wasUserPaused) =>
        (~isPaused /\ timers # {})

-----------------------------------------------------------------------------
\* the timers that were live before the step and have neither fired in it nor
\* been named by the handle: a transition leaves them alone
Untracked == {t \in timers : t.id # timeoutId /\ t \in timers'}

-----------------------------------------------------------------------------
\* destroy() has returned: the listeners of a constructed instance are removed
Destroyed == nItems > 0 /\ ~listening

\* C16: once destroy() has returned, no step creates a carousel, arms a timer or
\* changes currentIndex.
C16_NothingAfterDestroy ==
    [][Destroyed => (/\ ~slider'
                     /\ timers' \subseteq timers
                     /\ currentIndex' = currentIndex)]_vars

-----------------------------------------------------------------------------
\* ---- the registry, observed with one registered instance of one item ------

InitSingle ==
    \E a \in DurationValues, autoplay \in BOOLEAN, wide \in BOOLEAN, shown \in BOOLEAN :
        Constructed(1, <<a>>, autoplay, wide, shown)

SpecSingle == InitSingle /\ [][Next]_vars

\* C17: however often the instance is registered, the map holds at most one
\* entry for its container (so the observer callback, which looks the target up,
\* calls onVisibilityChange of one instance per observer entry), and a register
\* that finds the observer in place creates no other and changes nothing.
C17_RegisterIdempotent ==
    /\ [](Len(EntriesFor(accordions, Container)) <= 1)
    /\ [][\A shown \in BOOLEAN :
            (DebounceFire(shown) /\ ReRegisters(shown)) =>
                /\ observer'
                /\ Len(EntriesFor(accordions', Container)) = 1
                /\ observer => phase' = "registered"
                /\ (observer /\ registered) => UNCHANGED regVars]_vars

\* a live instance whose resize handler has just registered it a second time
C17_Witness ==
    /\ listening /\ phase = "registered"
    /\ observer /\ Len(accordions) = 1

\* C18: destroy()'s unregister removes the entry of the instance and changes
\* nothing when the instance is not registered; an observer callback for the
\* container of an instance that is not registered changes no field of it.
C18_UnregisterAndStaleCallbacks ==
    [][/\ (phase' = "destroyed" /\ Destroy) =>
            (~registered' /\ (~registered => UNCHANGED regVars))
       /\ (~registered /\ UNCHANGED <<now, debounce, landscape, listening>>
              /\ UNCHANGED <<currentIndex, wasUserPaused, regVars>>
              /\ \E b \in BOOLEAN : VisibilityCallback(b, TRUE))
            => UNCHANGED <<ctrlVars, domVars, timers>>]_vars

\* destroy() has unregistered a visible instance while the observer is alive
C18_Witness ==
    /\ Destroyed /\ phase = "destroyed"
    /\ observer /\ ~registered /\ isVisible

\* C19: the map is empty whenever there is no observer; registry destroy()
\* drops the observer and empties the map, changes nothing when there is no
\* observer, and a register that finds no observer creates one.
C19_RegistryDestroy ==
    /\ [](~observer => accordions = <<>>)
    /\ [][/\ RegistryDestroy => (~observer' /\ accordions' = <<>>)
          /\ (RegistryDestroy /\ ~observer) => UNCHANGED <<regVars, ctrlVars, domVars>>
          /\ (~observer /\ registered') => (observer' /\ phase' = "created")]_vars

\* after a registry destroy() the resize handler has registered the instance
\* again and init() has created a new observer
C19_Witness ==
    /\ phase = "created" /\ now > 0
    /\ observer /\ registered

-----------------------------------------------------------------------------
\* C20, as stated: when the debounced handler runs, a wide viewport leaves no
\* carousel; a narrow one with no carousel and a visible instance gets a carousel;
\* a narrow one with a carousel keeps it; a narrow one with no carousel and a
\* hidden instance changes nothing.
C20_ResizeHandlerCases ==
    [][\A shown \in BOOLEAN : DebounceFire(shown) =>
        /\ landscape => ~slider'
        /\ (~landscape /\ ~slider /\ isVisible) => slider'
        /\ (~landscape /\ slider) => (slider' /\ UNCHANGED regVars)
        /\ (~landscape /\ ~slider /\ ~isVisible) => UNCHANGED <<slider, regVars>>
        /\ UNCHANGED <<playVars, domVars, timers>>]_vars

\* C20, amended: in the narrow case with no carousel and isVisible set, the
\* carousel is attached only when the element passes Utils.isElementVisible at
\* that moment; when it does not, no carousel is attached and the instance is
\* registered with the visibility manager again. The other cases are as stated.
C20_ResizeHandlerCasesShown ==
    [][\A shown \in BOOLEAN : DebounceFire(shown) =>
        /\ landscape => (~slider' /\ UNCHANGED regVars)
        /\ (~landscape /\ ~slider /\ isVisible /\ shown) => (slider' /\ UNCHANGED regVars)
        /\ (~landscape /\ ~slider /\ isVisible /\ ~shown)
             => (~slider' /\ observer' /\ Len(EntriesFor(accordions', Container)) = 1)
        /\ (~landscape /\ slider) => (slider' /\ UNCHANGED regVars)
        /\ (~landscape /\ ~slider /\ ~isVisible) => UNCHANGED <<slider, regVars>>
        /\ UNCHANGED <<playVars, domVars, timers>>]_vars

\* the handler has just run on a narrow viewport for an instance whose
\* isVisible is set but whose element is not visible: no carousel, registered
C20_Witness ==
    /\ phase \in {"registered", "created"} /\ debounce = -1
    /\ ~landscape /\ isVisible /\ ~slider
    /\ registered

-----------------------------------------------------------------------------
\* C21: while the viewport is narrow a header click changes neither the active
\* item nor the timer nor the pause state, and every change of the active item
\* in that mode is a slideChanged notification or a timer advance.
C21_NarrowIgnoresHeaderClick ==
    [][/\ (~landscape /\ \E i \in 0..(nItems - 1) : HeaderClick(i))
            => UNCHANGED <<currentIndex, activeItems, pausedItems, timers, timeoutId,
                           isPaused, wasUserPaused, remainingTime, startTime, duration>>
       /\ (~landscape /\ currentIndex' # currentIndex)
            => \/ \E i \in 0..(nItems - 1) : SlideChanged(i)
               \/ \E t \in timers : TimerFire(t)]_vars

\* narrow viewport, carousel attached, the timer running for the second item,
\* which a slide change made current; clicks have been handled
C21_Witness ==
    /\ ~landscape /\ slider /\ listening
    /\ currentIndex = 1 /\ startup = "used" /\ phase = "none"
    /\ timers # {} /\ ~isPaused

-----------------------------------------------------------------------------
\* C23: an instance built on a container without items has no listeners, no
\* registry entry, no carousel, no timer and no pending resize, and every field
\* keeps its constructed value, whatever events (destroy() included) occurred.
C23_NoItemsDormant ==
    (nItems = 0) =>
        /\ ~listening /\ ~registered /\ ~slider
        /\ timers = {} /\ timeoutId = 0 /\ debounce = -1
        /\ isPaused /\ ~isVisible /\ ~hasStartedAnimation
        /\ currentIndex = 0 /\ activeItems = {} /\ pausedItems = {}
        /\ remainingTime = 0 /\ duration = 0 /\ startTime = 0

\* destroy() has been called on an instance without items, after a resize
C23_Witness ==
    /\ nItems = 0 /\ phase = "destroyed"
    /\ now > 0 /\ ~landscape

-----------------------------------------------------------------------------
\* C24: after any number of pause/resume cycles within one item of duration D,
\* the remaining time recorded at a pause equals D minus the running time the
\* item has accumulated over all its run segments.
C24_RunningTimeConserved ==
    (phase \in {"pausedUser", "pausedHidden"} /\ cycles >= 1 /\ DeclaredRemaining >= 0)
        => remainingTime = DeclaredRemaining

\* C25: when the user navigates to a different item while the controller is
\* paused and then resumes with the instance visible, the resume arms the timer
\* for the newly active item's full duration.
C25_ResumeAfterNavigationFullDuration ==
    [][(phase = "navigatedPaused" /\ isPaused /\ isVisible /\ TogglePause)
         => FullTimerArmed(timers', currentIndex)]_vars

\* C26: whenever the controller is paused or has not started yet, no
\* auto-advance timer is live.
C26_PausedHasNoTimer ==
    (isPaused \/ startup = "fresh") => timers = {}

\* C27: a hidden callback delivered while the controller is already paused
\* changes only isVisible: remaining time, pause flags, current index, timers
\* and timer handle stay as they were.
C27_HiddenWhilePausedOnlyVisibility ==
    [][(/\ isPaused /\ registered /\ ~isVisible' /\ now' = now
        /\ \E b, sh \in BOOLEAN : ~(b /\ sh) /\ VisibilityCallback(b, sh))
         => UNCHANGED <<remainingTime, isPaused, wasUserPaused, currentIndex, timers,
                        timeoutId, duration, startTime, hasStartedAnimation,
                        activeItems, pausedItems, slider>>]_vars

\* a hidden callback has been handled while user-paused part-way through an item
C27_Witness ==
    /\ isPaused /\ wasUserPaused /\ ~isVisible /\ hasStartedAnimation
    /\ remainingTime = 500 /\ duration = 1000
    /\ phase = "hiddenPaused"

\* C28: in every reachable state in which the viewport is wide, the instance
\* holds no carousel.
C28_WideHasNoCarousel ==
    landscape => ~slider

-----------------------------------------------------------------------------
\* ---- the hover layout: a container carrying is-layout-2 ---------------------

\* el.closest( selector ) over the item markup: the header button lies inside
\* the item, so the chain searched from an element is the element itself and
\* the elements around it
SelfAndAncestors(el) ==
    IF el = "button" THEN {"button", "header", "item", "container"}
    ELSE IF el = "item" THEN {"item", "container"}
    ELSE {"container"}

Closest(el, selector) == selector \in SelfAndAncestors(el)

\* handleMouseEnterItem( e ) for the mouseenter listener of item i, whose
\* e.target is the item element; the listeners are attached by init() and the
\* removeEventListener calls of destroy() name other functions
MouseEnterItem(i) ==
    /\ nItems > 0 /\ CanArm
    /\ IF Closest("item", "button") /\ landscape /\ i # currentIndex
       THEN ShowItem(timers, i)
       ELSE UNCHANGED <<timers, timeoutId, duration, startTime, remainingTime,
                        activeItems, pausedItems, currentIndex, activeMs, cycles,
                        videoPlaying>>
    /\ phase' = "hovered"
    /\ startup' = "used"
    /\ UNCHANGED <<nItems, faceOn, contentContainer, durations, autoplayEnabled, isPaused,
                   slider, widgets, markers, buttonShowsPlay, isVisible, wasUserPaused, hasStartedAnimation, listening, regVars,
                   now, debounce, landscape, everResumed, log, burst, sideVars, observed>>

InitHover ==
    \E n \in 1..MaxItems, autoplay \in BOOLEAN, wide \in BOOLEAN, shown \in BOOLEAN :
        Constructed(n, DurationsOf(n, 500, 500), autoplay, wide, shown)

NextHover ==
    \/ Next
    \/ \E i \in 0..(nItems - 1) : MouseEnterItem(i)

SpecHover == InitHover /\ [][NextHover]_vars

\* C22: in the hover layout the pointer entering an item other than the current
\* one makes that item the active item, in a wide and in a narrow viewport.
C22_HoverActivates ==
    [][\A i \in 0..(nItems - 1) :
          (i # currentIndex /\ MouseEnterItem(i))
             => (currentIndex' = i /\ activeItems' = {i})]_vars

-----------------------------------------------------------------------------
\* ---- the carousel, on containers with and without the content element ------

InitCarousel ==
    \E n \in 1..MaxItems, autoplay \in BOOLEAN, wide \in BOOLEAN, shown \in BOOLEAN,
       container \in BOOLEAN :
        ConstructedOn(n, DurationsOf(n, 500, 500), autoplay, wide, shown, container)

SpecCarousel == InitCarousel /\ [][Next]_vars

\* C29: an instance never has more than one live carousel widget, and the one
\* it has is the one this.slider refers to; a widget is created only with a
\* content container and with none attached, never by a resize handler that
\* finds the container not visible, and never without a content container.
C29_AtMostOneCarousel ==
    /\ [](/\ widgets <= 1
          /\ slider <=> (widgets = 1)
          /\ ~contentContainer => widgets = 0)
    /\ [][/\ widgets' > widgets => (contentContainer /\ ~slider /\ widgets = 0 /\ slider')
          /\ DebounceFire(FALSE) => widgets' <= widgets]_vars

\* a carousel is attached in a narrow viewport after the resize handler has run
C29_Witness ==
    /\ contentContainer /\ slider /\ widgets = 1
    /\ ~landscape /\ debounce = -1 /\ now = 1000
    /\ isVisible /\ listening

\* C30: the slideChanged notification with which the carousel reports the move
\* the controller itself commanded (the first event after a timer-driven
\* advance to another item, carrying the index the controller has just set)
\* causes no second transition and no timer restart in the controller.
C30_NoFeedbackLoop ==
    [][(phase = "advanced" /\ slider /\ nItems > 1 /\ SlideChanged(currentIndex))
         => UNCHANGED <<currentIndex, activeItems, pausedItems, timers, timeoutId,
                        startTime, remainingTime, duration>>]_vars

-----------------------------------------------------------------------------
\* ---- the marker classes of the carousel ----------------------------------------

\* the specification that records the visible face
InitFace ==
    \E n \in 0..MaxItems, a \in DurationValues, b \in DurationValues,
       autoplay \in BOOLEAN, wide \in BOOLEAN, shown \in BOOLEAN :
        ConstructedWith(n, DurationsOf(n, a, b), autoplay, wide, shown, TRUE, TRUE)

SpecFace == InitFace /\ [][Next]_vars

\* C31: in every state the content container and the items carry the carousel
\* marker classes if and only if a carousel widget is attached to the instance;
\* in particular none remains after a detach on resize and after destroy().
C31_MarkersIffCarousel == markers <=> slider

\* C31 counterexample: destroy() has dropped the carousel and the marker classes
\* are still on the content container and the items
C31_MarkersLeftByDestroy ==
    /\ phase = "destroyed"
    /\ ~slider
    /\ markers

-----------------------------------------------------------------------------
\* ---- the debounced resize handler, with the events of a burst recorded ---------

\* a resize / orientationchange event, recorded when the listeners receive it
BurstResize(wide) ==
    /\ Len(burst.times) < MaxBurst
    /\ ResizeEvent(wide)
    /\ burst' = IF listening THEN [times |-> Append(burst.times, now), handled |-> 0]
                            ELSE burst

InitResize ==
    \E autoplay \in BOOLEAN, wide \in BOOLEAN, shown \in BOOLEAN :
        Constructed(1, <<500>>, autoplay, wide, shown)

NextResize ==
    \/ \E i \in 0..(nItems - 1) : HeaderClick(i)
    \/ \E i \in (-1)..nItems : SlideChanged(i)
    \/ \E t \in timers : TimerFire(t)
    \/ PauseClick
    \/ \E b \in BOOLEAN : \E shown \in (IF b THEN BOOLEAN ELSE {FALSE}) :
          VisibilityCallback(b, shown)
    \/ \E w \in BOOLEAN : BurstResize(w)
    \/ \E shown \in BOOLEAN : DebounceFire(shown)
    \/ Destroy
    \/ RegistryDestroy
    \/ Tick

SpecResize == InitResize /\ [][NextResize]_vars

\* the time of the last event of the burst
LastOf(times) == times[Len(times)]

\* C32: for a burst of resize / orientationchange events the mode-switch handler
\* runs exactly once, 500 ms after the last event of the burst: while events are
\* waiting there is one pending call, due RESIZE_DEBOUNCE after the last of them
\* and not overdue, and once the handler has run nothing is pending.
C32_DebouncedOncePerBurst ==
    /\ (burst.times # <<>>) <=> (debounce >= 0)
    /\ burst.times # <<>> => /\ debounce = LastOf(burst.times) + RESIZE_DEBOUNCE
                             /\ now <= debounce

\* C32 witness: the handler has run once for a burst of several events and
\* nothing is pending
C32_Witness ==
    /\ burst.handled >= 2
    /\ burst.times = <<>>
    /\ debounce < 0
    /\ now = RESIZE_DEBOUNCE

-----------------------------------------------------------------------------
\* ---- two instances on one page, sharing the AccordionVisibilityManager ----------

\* the container element of the second instance and the second instance; it has
\* PeerItems items of duration PeerDuration, autoplay enabled, a wide viewport
PeerContainer == "container2"
Peer == "accordion2"
PeerItems == 2
PeerDuration == 500

\* accordions.get( k ): the instance registered for the element k, "none" if none
MapGet(m, k) ==
    IF MapHas(m, k) THEN EntriesFor(m, k)[1].accordion ELSE "none"

\* the fields of the second instance after its constructor and init(); timer is
\* the due time of the timer this.timeoutId refers to, -1 without one
PeerConstructed ==
    [live |-> TRUE, currentIndex |-> 0, isPaused |-> TRUE, isVisible |-> FALSE,
     hasStartedAnimation |-> FALSE, remainingTime |-> 0, startTime |-> 0, timer |-> -1]

\* new MediaAccordion( accordion ) for the second container: init() registers it
PeerConstruct ==
    /\ ~peer.live
    /\ peer' = PeerConstructed
    /\ observer' = TRUE
    /\ accordions' = MapSet(accordions, PeerContainer, Peer)
    /\ UNCHANGED <<ctrlVars, faceVars, domVars, envVars, histVars, nav, variant, observed>>

\* scheduleNextItem() of the second instance
PeerScheduled(p) ==
    IF p.isPaused \/ ~p.isVisible
    THEN p
    ELSE [p EXCEPT !.remainingTime = PeerDuration, !.startTime = now,
                   !.timer = now + PeerDuration]

\* showItem( index ) of the second instance
PeerShown(p, index) ==
    PeerScheduled([p EXCEPT !.currentIndex = index, !.timer = -1])

\* pauseAnimation() of the second instance
PeerPaused(p) ==
    IF ~p.isPaused
    THEN [p EXCEPT !.isPaused = TRUE, !.timer = -1,
                   !.remainingTime = Max(0, PeerDuration - (now - p.startTime))]
    ELSE p

\* resumeAnimation() of the second instance, which is never user-paused
PeerResumed(p) ==
    IF p.isPaused
    THEN IF ~p.hasStartedAnimation
         THEN PeerScheduled([p EXCEPT !.isPaused = FALSE, !.hasStartedAnimation = TRUE])
         ELSE [p EXCEPT !.isPaused = FALSE, !.startTime = now,
                        !.timer = now + p.remainingTime]
    ELSE IF p.remainingTime = 0
    THEN PeerScheduled(p)
    ELSE p

\* onVisibilityChange( isVisible ) of the second instance
PeerOnVisibilityChange(p, visible) ==
    IF visible THEN PeerResumed([p EXCEPT !.isVisible = TRUE])
               ELSE PeerPaused([p EXCEPT !.isVisible = FALSE])

\* the observer callback's handling of an entry of the second container: the
\* instance is looked up by the entry's target
PeerDeliverEntry(visible) ==
    /\ peer.live
    /\ MapGet(accordions, PeerContainer) = Peer
    /\ peer' = PeerOnVisibilityChange(peer, visible)
    /\ UNCHANGED <<ctrlVars, faceVars, domVars, regVars, envVars, histVars, nav, variant>>

\* the IntersectionObserver callback for an entry of the second container
PeerVisibilityCallback(visible) == PeerDeliverEntry(visible) /\ UNCHANGED observed

\* a header click on item i of the second instance
PeerHeaderClick(i) ==
    /\ peer.live
    /\ MapGet(accordions, PeerContainer) = Peer
    /\ i # peer.currentIndex
    /\ peer' = PeerShown(peer, i)
    /\ UNCHANGED <<ctrlVars, faceVars, domVars, regVars, envVars, histVars, nav, variant, observed>>

\* the timer of the second instance fires
PeerTimerFire ==
    /\ peer.live
    /\ peer.timer >= 0
    /\ peer.timer <= now
    /\ peer' = PeerShown(peer, (peer.currentIndex + 1) % PeerItems)
    /\ UNCHANGED <<ctrlVars, faceVars, domVars, regVars, envVars, histVars, nav, variant, observed>>

\* destroy() of the second instance
PeerDestroy ==
    /\ peer.live
    /\ peer' = [peer EXCEPT !.timer = -1]
    /\ accordions' = IF observer /\ MapHas(accordions, PeerContainer)
                     THEN MapDelete(accordions, PeerContainer)
                     ELSE accordions
    /\ UNCHANGED <<ctrlVars, faceVars, domVars, observer, envVars, histVars, nav, variant, observed>>

\* 500 ms pass; neither instance's due timer is passed over
PairTick ==
    /\ peer.live => (peer.timer < 0 \/ peer.timer > now)
    /\ Tick

InitPair == Constructed(2, <<500, 500>>, TRUE, TRUE, TRUE)

\* an event delivered to the first instance
InstanceEvent ==
    \/ \E i \in 0..(nItems - 1) : HeaderClick(i)
    \/ \E t \in timers : TimerFire(t)
    \/ PauseClick
    \/ \E b \in BOOLEAN : \E shown \in (IF b THEN BOOLEAN ELSE {FALSE}) :
          VisibilityCallback(b, shown)
    \/ Destroy

\* an event delivered to the second instance
PeerEvent ==
    \/ \E i \in 0..(PeerItems - 1) : PeerHeaderClick(i)
    \/ PeerTimerFire
    \/ \E b \in BOOLEAN : PeerVisibilityCallback(b)
    \/ PeerDestroy

NextPair ==
    \/ PeerConstruct
    \/ InstanceEvent
    \/ PeerEvent
    \/ PairTick

SpecPair == InitPair /\ [][NextPair]_vars

\* C33: with two instances registered, an event delivered to one instance (a
\* visibility callback for its container, a click, its timer firing, its own
\* destroy) leaves the other instance's current index, pause state, remaining
\* time, timer and registry entry unchanged.
C33_InstancesIndependent ==
    [][/\ (peer.live /\ InstanceEvent)
            => UNCHANGED <<peer, EntriesFor(accordions, PeerContainer)>>
       /\ PeerEvent
            => UNCHANGED <<currentIndex, isPaused, remainingTime, timers, timeoutId,
                           EntriesFor(accordions, Container)>>]_vars

\* C33 witness: the first instance has been destroyed and the second one is still
\* registered and running
C33_Witness ==
    /\ phase = "destroyed"
    /\ peer.live
    /\ MapGet(accordions, PeerContainer) = Peer
    /\ ~MapHas(accordions, Container)
    /\ peer.timer >= 0
    /\ ~peer.isPaused

-----------------------------------------------------------------------------
\* ---- the modifier classes of the items ---------------------------------------

\* C34: in every state the paused class is on an item if and only if that item
\* is the current item and the controller is paused; no item other than the
\* current one carries the active or the paused class.
C34_PausedClassIffPausedCurrent ==
    /\ \A i \in 0..(nItems - 1) : i \in pausedItems <=> (i = currentIndex /\ isPaused)
    /\ activeItems \cup pausedItems \subseteq {currentIndex}

\* C34 witness: the controller was paused on one item, the user navigated to
\* another one, and that one alone carries the paused class
C34_Witness ==
    /\ phase = "navigatedPaused"
    /\ isPaused
    /\ currentIndex = 1
    /\ pausedItems = {1}
    /\ activeItems = {1}

-----------------------------------------------------------------------------
\* ---- the video of the active item and the pause button ---------------------------

\* C35: whenever the active item's media is a video, the video plays exactly when
\* the controller is not paused: it is not playing whenever the controller is
\* paused, including for a newly activated item and for an instance with
\* autoplay disabled.
C35_VideoPlaysIffNotPaused == nItems > 0 => (videoPlaying <=> ~isPaused)

\* C35 for the instances built with autoplay enabled
C35_VideoFollowsPauseWithAutoplay ==
    (nItems > 0 /\ autoplayEnabled) => (videoPlaying <=> ~isPaused)

\* C36: the pause button reflects the playback state after every event: whenever
\* an auto-advance timer is live and the controller is not paused (Running) the
\* button shows the pause icon with label 'Pause', and whenever the controller is
\* user-paused it shows the play icon with label 'Resume' (for an instance with
\* items; init() does not touch the button of one without).
C36_ButtonReflectsState ==
    nItems > 0 => /\ Running => ~buttonShowsPlay
                  /\ wasUserPaused => buttonShowsPlay

\* C36 for the user-paused half alone
C36_UserPausedShowsPlay == (nItems > 0 /\ wasUserPaused) => buttonShowsPlay

-----------------------------------------------------------------------------
\* ---- the pause button while hidden ----------------------------------------------

\* paused only because the instance is hidden, after it had been running
PausedHidden == isPaused /\ ~wasUserPaused /\ ~isVisible /\ hasStartedAnimation

\* C37: a pause-button click made while the controller is paused only because it
\* is hidden puts it into Paused-User (user-paused, paused, no timer), so that the
\* following onVisibilityChange(true) does not resume it.
C37_ClickWhileHiddenUserPauses ==
    [][(PausedHidden /\ PauseClick)
         => (wasUserPaused' /\ isPaused' /\ timers' = {})]_vars

-----------------------------------------------------------------------------
\* ---- the navigation plugin (navigation-plugin.js) ---------------------------------
\* The page around the slider is a tree of elements: element 1 is the parent the
\* slider container starts under, element 2 the slider container, the others are
\* the wrappers and dots containers the plugin creates.  nav.parent[e] is the
\* parent of e (0: none), nav.wrapper and nav.dots are the plugin's two closure
\* variables (0: undefined), nav.dotCount[e] and nav.dotActive[e] are the children
\* of a dots container and those carrying 'dot--active'; nav.slides and nav.rel
\* are slider.track.details.slides.length and slider.track.details.rel.

Elements == 1..MaxNavElements
OriginalParent == 1
SliderContainer == 2

\* e is in the document: its chain of parents reaches the original parent
RECURSIVE Attached(_, _)
Attached(d, e) ==
    IF e = OriginalParent THEN TRUE
    ELSE IF d.parent[e] = 0 THEN FALSE
    ELSE Attached(d, d.parent[e])

\* e can still be reached: it is in the document, or one of the closure
\* variables refers to it or to an ancestor of it
RECURSIVE Reachable(_, _)
Reachable(d, e) ==
    \/ e \in {OriginalParent, SliderContainer, d.wrapper, d.dots}
    \/ d.parent[e] # 0 /\ Reachable(d, d.parent[e])

\* the elements nothing refers to any more are forgotten
Collected(d) ==
    [d EXCEPT !.kind = [e \in Elements |-> IF Reachable(d, e) THEN d.kind[e] ELSE "free"],
              !.parent = [e \in Elements |-> IF Reachable(d, e) THEN d.parent[e] ELSE 0],
              !.dotCount = [e \in Elements |-> IF Reachable(d, e) THEN d.dotCount[e] ELSE 0],
              !.dotActive = [e \in Elements |-> IF Reachable(d, e) THEN d.dotActive[e] ELSE {}]]

\* document.createElement: an element not in use
NewElement(d) == CHOOSE e \in Elements : d.kind[e] = "free" /\ \A f \in Elements : f < e => d.kind[f] # "free"

\* the plugin can create the two elements of one markup
CanCreate(d) == Cardinality({e \in Elements : d.kind[e] = "free"}) >= 2

\* removeElement( element )
RemoveElement(d, e) ==
    IF e # 0 /\ d.parent[e] # 0 THEN [d EXCEPT !.parent[e] = 0] ELSE d

\* createWrapper( remove ): with remove, the children of the wrapper move to its
\* parent and the wrapper is taken out (a wrapper that is not in the document has
\* no child to move); without, a new wrapper is appended to the parent of the
\* slider container and the slider container moves into it
CreateWrapper(d, remove) ==
    IF remove
    THEN IF d.wrapper # 0
         THEN RemoveElement(
                 [d EXCEPT !.parent = [e \in Elements |->
                                          IF d.parent[e] = d.wrapper /\ d.parent[d.wrapper] # 0
                                          THEN d.parent[d.wrapper] ELSE d.parent[e]]],
                 d.wrapper)
         ELSE d
    ELSE LET w == NewElement(d)
         IN  [d EXCEPT !.kind[w] = "wrapper",
                       !.parent = [e \in Elements |->
                                      IF e = w THEN d.parent[SliderContainer]
                                      ELSE IF e = SliderContainer THEN w
                                      ELSE d.parent[e]],
                       !.wrapper = w]

\* variant: createDots( true ) leaves the old dots container where it is
CreateDotsKeepsOld(d, remove) ==
    IF remove
    THEN d
    ELSE LET e == NewElement(d)
         IN  [d EXCEPT !.kind[e] = "dots",
                       !.dotCount[e] = d.slides,
                       !.dotActive[e] = {},
                       !.parent[e] = d.wrapper,
                       !.dots = e]

\* createDots( remove ): with remove, the dots container is taken out; without,
\* a new one with one dot per slide is appended to the wrapper
CreateDots(d, remove) ==
    IF remove
    THEN RemoveElement(d, d.dots)
    ELSE LET e == NewElement(d)
         IN  [d EXCEPT !.kind[e] = "dots",
                       !.dotCount[e] = d.slides,
                       !.dotActive[e] = {},
                       !.parent[e] = d.wrapper,
                       !.dots = e]

\* updateDots(): classList.toggle( 'dot--active', idx === activeSlide ) on every dot
UpdateDots(d) ==
    IF d.dots = 0
    THEN d
    ELSE [d EXCEPT !.dotActive[d.dots] =
                       {idx \in 0..(d.dotCount[d.dots] - 1) : idx = d.rel}]

\* createMarkup( remove )
CreateMarkup(d, remove) == CreateDots(CreateWrapper(d, remove), remove)

\* createNavigationPlugin( slider ) has registered its listeners and the widget
\* has emitted nothing yet
NavInstalled ==
    [live |-> TRUE, last |-> "none", slides |-> 0, rel |-> 0, wrapper |-> 0, dots |-> 0,
     kind |-> [e \in Elements |-> IF e = OriginalParent THEN "parent"
                                  ELSE IF e = SliderContainer THEN "container"
                                  ELSE "free"],
     parent |-> [e \in Elements |-> IF e = SliderContainer THEN OriginalParent ELSE 0],
     dotCount |-> [e \in Elements |-> 0],
     dotActive |-> [e \in Elements |-> {}]]

\* createNavigationPlugin( slider )
NavInstall ==
    /\ ~nav.live
    /\ nav' = NavInstalled
    /\ UNCHANGED <<ctrlVars, faceVars, domVars, regVars, envVars, histVars, peer, variant, observed>>

\* the widget emits 'created', with n slides and the slide r current
NavCreated(n, r) ==
    /\ nav.live /\ nav.last = "none"
    /\ nav' = [Collected(UpdateDots(CreateMarkup([nav EXCEPT !.slides = n, !.rel = r], FALSE)))
                  EXCEPT !.last = "created"]
    /\ UNCHANGED <<ctrlVars, faceVars, domVars, regVars, envVars, histVars, peer, variant, observed>>

\* the widget emits 'optionsChanged', now with n slides and the slide r current
NavOptionsChanged(n, r) ==
    /\ nav.live /\ nav.last # "none"
    /\ CanCreate(nav)
    /\ nav' = [Collected(UpdateDots(CreateMarkup(
                   CreateMarkup([nav EXCEPT !.slides = n, !.rel = r], TRUE), FALSE)))
                  EXCEPT !.last = "optionsChanged"]
    /\ UNCHANGED <<ctrlVars, faceVars, domVars, regVars, envVars, histVars, peer, variant, observed>>

\* the widget emits 'slideChanged', the slide r being current now
NavSlideChanged(r) ==
    /\ nav.live /\ nav.last # "none"
    /\ r # nav.rel
    /\ nav' = [UpdateDots([nav EXCEPT !.rel = r]) EXCEPT !.last = "slideChanged"]
    /\ UNCHANGED <<ctrlVars, faceVars, domVars, regVars, envVars, histVars, peer, variant, observed>>

\* the widget emits 'destroyed'
NavDestroyed ==
    /\ nav.live /\ nav.last # "none"
    /\ nav' = [Collected(CreateMarkup(nav, TRUE)) EXCEPT !.last = "destroyed"]
    /\ UNCHANGED <<ctrlVars, faceVars, domVars, regVars, envVars, histVars, peer, variant, observed>>

\* the plugin is studied on its own, beside an instance without items
InitNav == Constructed(0, <<>>, TRUE, TRUE, TRUE)

\* the widget emits 'created' once, as the first event of its life, and then
\* optionsChanged, slideChanged and destroyed in any order and number; the number
\* of slides changes only with optionsChanged
NextNav ==
    \/ NavInstall
    \/ \E n \in 1..MaxSlides : \E r \in 0..(n - 1) : NavCreated(n, r)
    \/ \E n \in 1..MaxSlides : \E r \in 0..(n - 1) : NavOptionsChanged(n, r)
    \/ \E r \in 0..(nav.slides - 1) : NavSlideChanged(r)
    \/ NavDestroyed

SpecNav == InitNav /\ [][NextNav]_vars

\* the dots containers and the wrappers that are in the document
DotsInDocument == {e \in Elements : nav.kind[e] = "dots" /\ Attached(nav, e)}
WrappersInDocument == {e \in Elements : nav.kind[e] = "wrapper" /\ Attached(nav, e)}

\* C38: after any sequence of the widget's created / optionsChanged / slideChanged
\* / destroyed events that starts with created, the document has at most one dots
\* container, it holds exactly one dot per slide and exactly the dot at the
\* widget's current relative index is active; right after destroyed no wrapper
\* and no dots container is left and the slider container is back under its
\* original parent.
C38_NavigationMarkup ==
    (nav.live /\ nav.last # "none") =>
        /\ Cardinality(DotsInDocument) <= 1
        /\ \A e \in DotsInDocument : /\ nav.dotCount[e] = nav.slides
                                     /\ nav.dotActive[e] = {nav.rel}
        /\ nav.last = "destroyed" => /\ DotsInDocument = {}
                                     /\ WrappersInDocument = {}
                                     /\ nav.parent[SliderContainer] = OriginalParent

\* C38 witness: after a change of options the one dots container has a dot for
\* each of the three slides and the last one is active
C38_Witness ==
    /\ nav.live
    /\ nav.last = "optionsChanged"
    /\ nav.slides = 3
    /\ nav.rel = 2
    /\ Cardinality(DotsInDocument) = 1
    /\ \A e \in DotsInDocument : nav.dotActive[e] = {2}

\* C38 witness of the second half: destroyed has undone the markup
C38_DestroyedWitness ==
    /\ nav.live
    /\ nav.last = "destroyed"
    /\ nav.slides = 3
    /\ WrappersInDocument = {}

-----------------------------------------------------------------------------
\* ---- the observer callback, entry by entry ---------------------------------------

\* what the callback reads of an element: getBoundingClientRect() and
\* getComputedStyle(); one element that passes the check and one for each way
\* of failing it
ShownElement ==
    [width |-> 100, height |-> 100, display |-> "block", visibility |-> "visible",
     opacity |-> "1"]
ElementStates ==
    {ShownElement,
     [ShownElement EXCEPT !.width = 0],
     [ShownElement EXCEPT !.height = 0],
     [ShownElement EXCEPT !.display = "none"],
     [ShownElement EXCEPT !.visibility = "hidden"],
     [ShownElement EXCEPT !.opacity = "0"]}

\* variant: the size of the element is not looked at
IsElementVisibleAnySize(el) ==
    /\ el.display # "none"
    /\ el.visibility # "hidden"
    /\ el.opacity # "0"

\* Utils.isElementVisible( element ) for an element that exists
IsElementVisible(el) ==
    /\ el.width > 0
    /\ el.height > 0
    /\ el.display # "none"
    /\ el.visibility # "hidden"
    /\ el.opacity # "0"

\* the observer callback handles one entry: its target, entry.isIntersecting and
\* the state of the target element
EntryCallback(target, isIntersecting, el) ==
    /\ observed' = [target |-> target, isIntersecting |-> isIntersecting, element |-> el]
    /\ IF target = Container
       THEN DeliverEntry(isIntersecting, IsElementVisible(el))
       ELSE PeerDeliverEntry(isIntersecting /\ IsElementVisible(el))

NextObserver ==
    \/ PeerConstruct
    \/ \E target \in {Container, PeerContainer}, b \in BOOLEAN, el \in ElementStates :
          EntryCallback(target, b, el)
    \/ PauseClick
    \/ Destroy
    \/ PeerDestroy

SpecObserver == InitPair /\ [][NextObserver]_vars

\* the boolean the claim names for an entry: intersecting, of non-zero size and
\* not hidden
Expected(o) ==
    /\ o.isIntersecting
    /\ o.element.width # 0
    /\ o.element.height # 0
    /\ o.element.display = "block"
    /\ o.element.visibility = "visible"
    /\ o.element.opacity = "1"

\* C39: for every observer entry whose target is a registered container, the
\* boolean delivered to that instance's onVisibilityChange is exactly
\* (entry.isIntersecting and the element passes the non-zero-size / not-hidden
\* check), and the entry is delivered only to the instance that owns its target.
C39_EntryDeliveredToOwner ==
    /\ []((observed.target = Container /\ MapGet(accordions, Container) = Self)
            => isVisible = Expected(observed))
    /\ []((observed.target = PeerContainer /\ MapGet(accordions, PeerContainer) = Peer)
            => peer.isVisible = Expected(observed))
    /\ [][(observed' # observed /\ observed'.target = Container) => UNCHANGED peer]_vars
    /\ [][(observed' # observed /\ observed'.target = PeerContainer)
            => UNCHANGED <<ctrlVars, faceVars, domVars, timers>>]_vars

\* C39 witness: an intersecting entry of a zero-height container has told the
\* running first instance that it is not visible, and the second instance is
\* still visible
C39_Witness ==
    /\ observed.target = Container
    /\ observed.isIntersecting
    /\ observed.element.height = 0
    /\ MapGet(accordions, Container) = Self
    /\ ~isVisible
    /\ phase = "pausedHidden"
    /\ peer.live
    /\ peer.isVisible

-----------------------------------------------------------------------------
\* ---- the MediaAccordion of the active-accordion view script ----------------------
\* (src/src/active-accordion/view.js, the class without hasStartedAnimation).  The
\* variable variant holds its fields, its live timers and, as history, startup
\* with the meaning it has for the first controller.

VariantItems == 2
VariantDuration == 500

\* the fields after the constructor and init(): showItem( 0 ) arms nothing
\* because isVisible is false
VariantConstructed ==
    [live |-> TRUE, currentIndex |-> 0, timeoutId |-> 0, isPaused |-> FALSE,
     remainingTime |-> 0, startTime |-> 0, duration |-> 0, isVisible |-> FALSE,
     wasUserPaused |-> FALSE, timers |-> {}, startup |-> "fresh"]

\* clearTimer()
VariantCleared(v) ==
    [v EXCEPT !.timers = ClearTimer(v.timers, v.timeoutId), !.timeoutId = 0]

\* scheduleNextItem()
VariantScheduled(v) ==
    IF v.isPaused \/ ~v.isVisible
    THEN v
    ELSE LET t == SetTimeout(v.timers, VariantDuration)
         IN  [v EXCEPT !.duration = VariantDuration, !.startTime = now,
                       !.remainingTime = VariantDuration,
                       !.timers = v.timers \cup {t}, !.timeoutId = t.id]

\* showItem( index )
VariantShown(v, index) ==
    IF index < 0 \/ index >= VariantItems
    THEN v
    ELSE VariantScheduled([VariantCleared(v) EXCEPT !.currentIndex = index])

\* the timeout armed by resumeAnimation() and resume(): the handle is overwritten
VariantContinued(v) ==
    LET t == SetTimeout(v.timers, v.remainingTime)
    IN  [v EXCEPT !.timers = v.timers \cup {t}, !.timeoutId = t.id]

\* pauseAnimation()
VariantPauseAnimation(v) ==
    IF ~v.isPaused
    THEN [VariantCleared(v) EXCEPT !.isPaused = TRUE,
                                   !.remainingTime = Max(0, v.duration - (now - v.startTime))]
    ELSE v

\* resumeAnimation()
VariantResumeAnimation(v) ==
    IF v.isPaused /\ ~v.wasUserPaused
    THEN VariantContinued([v EXCEPT !.isPaused = FALSE, !.startTime = now])
    ELSE v

\* onVisibilityChange( isVisible ), in a wide viewport
VariantOnVisibilityChange(v, visible) ==
    IF visible
    THEN IF ~v.wasUserPaused
         THEN VariantResumeAnimation([v EXCEPT !.isVisible = TRUE])
         ELSE [v EXCEPT !.isVisible = TRUE]
    ELSE VariantPauseAnimation([v EXCEPT !.isVisible = FALSE])

\* pause()
VariantPause(v) ==
    [VariantCleared(v) EXCEPT !.wasUserPaused = TRUE, !.isPaused = TRUE,
                              !.remainingTime = Max(0, v.duration - (now - v.startTime))]

\* resume()
VariantResume(v) ==
    LET w == [v EXCEPT !.wasUserPaused = FALSE, !.isPaused = FALSE, !.startTime = now]
    IN  IF v.isVisible THEN VariantContinued(w) ELSE w

\* the variant can arm one more timer within the model's bound
VariantCanArm == Cardinality(variant.timers) < MaxTimers

\* new MediaAccordion( element )
VariantConstruct ==
    /\ ~variant.live
    /\ variant' = VariantConstructed
    /\ UNCHANGED <<ctrlVars, faceVars, domVars, regVars, envVars, histVars, peer, nav,
                   observed>>

\* the observer callback calls onVisibilityChange( visible )
VariantVisibilityCallback(visible) ==
    /\ variant.live /\ VariantCanArm
    /\ variant' = [VariantOnVisibilityChange(variant, visible) EXCEPT
                      !.startup = IF variant.startup = "fresh"
                                  THEN (IF visible THEN "started" ELSE "fresh")
                                  ELSE "used"]
    /\ UNCHANGED <<ctrlVars, faceVars, domVars, regVars, envVars, histVars, peer, nav,
                   observed>>

\* a click on the header of item i, in a wide viewport
VariantHeaderClick(i) ==
    /\ variant.live /\ VariantCanArm
    /\ i # variant.currentIndex
    /\ variant' = [VariantShown(variant, i) EXCEPT !.startup = "used"]
    /\ UNCHANGED <<ctrlVars, faceVars, domVars, regVars, envVars, histVars, peer, nav,
                   observed>>

\* a click on the pause button: togglePause()
VariantPauseClick ==
    /\ variant.live /\ VariantCanArm
    /\ variant' = [(IF variant.isPaused THEN VariantResume(variant)
                                       ELSE VariantPause(variant))
                      EXCEPT !.startup = "used"]
    /\ UNCHANGED <<ctrlVars, faceVars, domVars, regVars, envVars, histVars, peer, nav,
                   observed>>

\* the timeout callback of timer t: showItem( ( currentIndex + 1 ) % items.length )
VariantTimerFire(t) ==
    /\ variant.live
    /\ t \in variant.timers
    /\ t.due <= now
    /\ variant' = VariantShown([variant EXCEPT !.timers = variant.timers \ {t}],
                               (variant.currentIndex + 1) % VariantItems)
    /\ UNCHANGED <<ctrlVars, faceVars, domVars, regVars, envVars, histVars, peer, nav,
                   observed>>

\* 500 ms pass; no due timer of the variant is passed over
VariantTick ==
    /\ \A t \in variant.timers : t.due > now
    /\ Tick

\* the variant is studied on its own, beside an instance without items
InitVariant == Constructed(0, <<>>, TRUE, TRUE, TRUE)

NextVariant ==
    \/ VariantConstruct
    \/ \E b \in BOOLEAN : VariantVisibilityCallback(b)
    \/ \E i \in 0..(VariantItems - 1) : VariantHeaderClick(i)
    \/ VariantPauseClick
    \/ \E t \in variant.timers : VariantTimerFire(t)
    \/ VariantTick

SpecVariant == InitVariant /\ [][NextVariant]_vars

\* C40: in the MediaAccordion of the active-accordion view script a freshly
\* constructed instance has an auto-advance timer for item 0's full duration live
\* after its first onVisibilityChange(true), without a hide/show cycle first:
\* from that callback until the timer fires, one timer is live and it is due a
\* full duration after the callback.
C40_VariantStartsWhenFirstShown ==
    (variant.live /\ variant.startup = "started" /\ variant.currentIndex = 0
       /\ now < variant.startTime + VariantDuration)
        => \E t \in variant.timers :
              /\ variant.timers = {t}
              /\ t.due = variant.startTime + VariantDuration

====
